---- MODULE Spec2Model ----
(***************************************************************************)
(* Model of the PerformanceTester class (performance-test module): the     *)
(* metrics store, the metrics collectors, the audit checks, the score      *)
(* aggregator, the recommendation generator, the report assembler and the  *)
(* runFullTest pipeline; and of the build script (build.js), which         *)
(* minifies three artifacts, rewrites the HTML and writes a build report;  *)
(* and of the utilities debounce, throttle and memoize.                    *)
(*                                                                         *)
(* JavaScript values are encoded as follows.                               *)
(*   - an object is a function whose DOMAIN is the set of keys present;    *)
(*   - a value that may be undefined/null is a sequence of length 0 or 1;  *)
(*   - numbers are integers; a quotient that JavaScript keeps as a double  *)
(*     is kept as a reduced fraction [num, den];                           *)
(*   - frame timestamps are counted in ticks of 1/TicksPerMs milliseconds, *)
(*     so that the frame periods 1000/60 ms and 1000/59 ms are whole.      *)
(***************************************************************************)
EXTENDS Integers, Sequences, FiniteSets, TLC

VARIABLES
    metrics,      \* this.metrics: the metrics store
    dom,          \* host: the document and window.location
    host,         \* host: capabilities, performance entries, frame cadence
    fps,          \* closure of the measureFPS call in flight (frames, startTime, ...)
    clock,        \* timestamp handed to the latest frame callback, if any
    pc,           \* position of the runFullTest coroutine
    log,          \* steps performed by the current runFullTest, in order
    report,       \* the first Report returned by generateReport, kept by its caller
    ret,          \* the latest value returned by a method call
    calls,        \* number of method calls started so far
    checked,      \* results of the check methods called one by one, by category and name
    disk,         \* build script: the files it reads and the files it has written
    build,        \* build script: position of build(), stats collected so far
    now,          \* utilities: the time of the host's timers
    deb,          \* utilities: closure of a debounced function, its timers and calls
    thr,          \* utilities: closure of a throttled function, its timers and calls
    memo          \* utilities: cache of a memoized function and its calls

\* State of the build script (build.js), a program of its own
buildVars == <<disk, build>>

\* State of the PerformanceTester and its host
testerVars == <<metrics, dom, host, fps, clock, pc, log, report, ret, calls, checked>>

\* State of the utility functions (debounce, throttle, memoize)
utilVars == <<now, deb, thr, memo>>

vars == <<metrics, dom, host, fps, clock, pc, log, report, ret, calls, checked,
          disk, build, now, deb, thr, memo>>

-----------------------------------------------------------------------------
(* Bounds of the model *)

MaxImages == 2
MaxFlagged == 6
MaxAltImages == 8
MaxLinks == 2
MaxPlainSheets == 23
MaxScripts == 14
MaxInteractive == 2
MaxHeadings == 3
MaxZigZag == 6
MaxChecks == 3
MaxResources == 3
MaxCalls == 3
MaxFpsCalls == 2
MaxPending == 1
MaxUtilCalls == 4
MaxTime == 8

-----------------------------------------------------------------------------
(* JavaScript values *)

EmptyObject == [k \in {} |-> 0]

Undefined == <<>>

Some(v) == <<v>>

Put(obj, key, value) ==
    [k \in DOMAIN obj \cup {key} |-> IF k = key THEN value ELSE obj[k]]

Has(obj, key) == key \in DOMAIN obj

Repeat(x, n) == [i \in 1..n |-> x]

SeqsUpTo(S, n) == UNION {[1..k -> S] : k \in 0..n}

Max(a, b) == IF a >= b THEN a ELSE b

\* Math.round of the non-negative quotient num/den: the nearest integer,
\* a tie going up.
MathRound(num, den) == (2 * num + den) \div (2 * den)

RECURSIVE Gcd(_, _)
Gcd(a, b) == IF b = 0 THEN a ELSE Gcd(b, a % b)

\* The double num/den, kept exactly as a reduced fraction.
Quotient(num, den) ==
    LET g == Gcd(num, den)
    IN  IF g = 0 THEN [num |-> 0, den |-> 1]
        ELSE [num |-> num \div g, den |-> den \div g]

-----------------------------------------------------------------------------
(* Audit checks.  Each reads the document (dom) or window.location only. *)

\* href.includes('fonts.googleapis.com') / the selector [href*="fonts.googleapis.com"]
IncludesGoogleFonts(href) ==
    href \in {"https://fonts.googleapis.com", "https://fonts.googleapis.com/css2"}

RECURSIVE Filter(_, _, _)
\* Array.prototype.filter, from element i: the elements of s for which the
\* callback returned true (keep[i]), in order.
Filter(s, keep, i) ==
    IF i > Len(s) THEN <<>>
    ELSE IF keep[i] THEN <<s[i]>> \o Filter(s, keep, i + 1)
         ELSE Filter(s, keep, i + 1)

\* IsLargeImage with the threshold itself flagged
IsLargeImage_AtLeast(img) == img.naturalWidth >= img.offsetWidth * 2

IsLargeImage(img) == img.naturalWidth > img.offsetWidth * 2

\* checkImageOptimization without the floor at 0
checkImageOptimization_NoFloor(d) ==
    LET largeImages == Filter(d.images, [k \in 1..Len(d.images) |-> IsLargeImage(d.images[k])], 1)
    IN  [score  |-> 100 - (Len(largeImages) * 20),
         issues |-> [i \in 1..Len(largeImages) |-> largeImages[i].src]]

checkImageOptimization(d) ==
    LET largeImages == Filter(d.images, [k \in 1..Len(d.images) |-> IsLargeImage(d.images[k])], 1)
    IN  [score  |-> IF Len(largeImages) = 0 THEN 100
                    ELSE Max(0, 100 - (Len(largeImages) * 20)),
         issues |-> [i \in 1..Len(largeImages) |-> largeImages[i].src]]

IsStylesheet(link) == link.rel = "stylesheet"

RECURSIVE CssTotalSize(_, _)
\* The forEach of checkCSSSize: 5000 for every stylesheet that has a href
\* which is not a Google Fonts one.
CssTotalSize(stylesheets, i) ==
    IF i > Len(stylesheets) THEN 0
    ELSE (IF stylesheets[i].href # "" /\ ~IncludesGoogleFonts(stylesheets[i].href)
          THEN 5000 ELSE 0) + CssTotalSize(stylesheets, i + 1)

\* totalSize is a multiple of 5000, so the division by 1000 is exact.
checkCSSSize(d) ==
    LET stylesheets == Filter(d.links, [k \in 1..Len(d.links) |-> IsStylesheet(d.links[k])], 1)
        totalSize   == CssTotalSize(stylesheets, 1)
    IN  [score |-> IF totalSize < 10000 THEN 100
                   ELSE Max(0, 100 - ((totalSize - 10000) \div 1000)),
         size  |-> totalSize]

\* totalSize is a multiple of 10000, so the division by 1000 is exact.
checkJSSize(d) ==
    LET totalSize == d.scripts * 10000
    IN  [score |-> IF totalSize < 30000 THEN 100
                   ELSE Max(0, 100 - ((totalSize - 30000) \div 1000)),
         size  |-> totalSize]

IsFontLink(link) == IncludesGoogleFonts(link.href)

checkFontLoading(d) ==
    LET fonts == Filter(d.links, [k \in 1..Len(d.links) |-> IsFontLink(d.links[k])], 1)
    IN  [score   |-> IF Len(fonts) <= 2 THEN 100 ELSE 50,
         warning |-> IF Len(fonts) > 2 THEN Some("Too many font requests")
                     ELSE Undefined]

checkHTTPS(d) ==
    [score  |-> IF d.protocol = "https:" THEN 100 ELSE 0,
     secure |-> d.protocol = "https:"]

checkConsoleErrors(d) == [score |-> 100, errors |-> <<>>]

DeprecatedSelectors == {"applet", "marquee", "frameset", "frame"}

checkDeprecatedAPI(d) ==
    LET found == {selector \in DeprecatedSelectors : selector \in d.tags}
    IN  [score |-> IF Cardinality(found) = 0 THEN 100 ELSE 0,
         deprecated |-> found]

HasNoAlt(img) == img.alt = ""

\* checkAltTags with the percentage rounded down
checkAltTags_Floor(d) ==
    LET missingAlt == Filter(d.images, [k \in 1..Len(d.images) |-> HasNoAlt(d.images[k])], 1)
    IN  [score   |-> IF Len(d.images) = 0 THEN 100
                     ELSE ((Len(d.images) - Len(missingAlt)) * 100) \div Len(d.images),
         missing |-> Len(missingAlt)]

\* (1 - missing/length) * 100 is (length - missing) * 100 / length.
checkAltTags(d) ==
    LET missingAlt == Filter(d.images, [k \in 1..Len(d.images) |-> HasNoAlt(d.images[k])], 1)
    IN  [score   |-> IF Len(d.images) = 0 THEN 100
                     ELSE MathRound((Len(d.images) - Len(missingAlt)) * 100,
                                    Len(d.images)),
         missing |-> Len(missingAlt)]

\* String.prototype.trim of the text contents the model uses
Trim(text) == IF text = " " THEN "" ELSE text

IsUnlabeled(el) ==
    el.ariaLabel = "" /\ Trim(el.textContent) = "" /\ el.title = ""

\* checkAriaLabels whose guard for the empty collection yields 0
checkAriaLabels_ZeroWhenEmpty(d) ==
    LET unlabeled == Filter(d.interactive, [k \in 1..Len(d.interactive) |-> IsUnlabeled(d.interactive[k])], 1)
    IN  [score     |-> IF Len(d.interactive) = 0 THEN 0
                       ELSE MathRound((Len(d.interactive) - Len(unlabeled)) * 100,
                                      Len(d.interactive)),
         unlabeled |-> Len(unlabeled)]

checkAriaLabels(d) ==
    LET unlabeled == Filter(d.interactive, [k \in 1..Len(d.interactive) |-> IsUnlabeled(d.interactive[k])], 1)
    IN  [score     |-> IF Len(d.interactive) = 0 THEN 100
                       ELSE MathRound((Len(d.interactive) - Len(unlabeled)) * 100,
                                      Len(d.interactive)),
         unlabeled |-> Len(unlabeled)]

checkColorContrast(d) ==
    [score |-> 85, warning |-> "Run detailed contrast check with browser tools"]

RequiredMeta == {"description", "viewport"}

checkMetaTags(d) ==
    LET presentMeta == {meta \in RequiredMeta : meta \in d.metaNames}
    IN  [score   |-> MathRound(Cardinality(presentMeta) * 100,
                               Cardinality(RequiredMeta)),
         missing |-> {meta \in RequiredMeta : meta \notin presentMeta}]

\* parseInt(heading.tagName[1])
HeadingLevel(tagName) ==
    CASE tagName = "H1" -> 1 [] tagName = "H2" -> 2 [] tagName = "H3" -> 3
      [] tagName = "H4" -> 4 [] tagName = "H5" -> 5 [] tagName = "H6" -> 6

RECURSIVE StructureErrors_FromFirst(_, _, _)
\* StructureErrors with the first heading compared against nothing
StructureErrors_FromFirst(headings, i, lastLevel) ==
    IF i > Len(headings) THEN 0
    ELSE LET level == HeadingLevel(headings[i])
         IN  (IF lastLevel > 0 /\ level > lastLevel + 1 THEN 1 ELSE 0)
             + StructureErrors_FromFirst(headings, i + 1, level)

RECURSIVE StructureErrors(_, _, _)
\* The forEach of checkHeadingStructure, from heading i with the given lastLevel.
StructureErrors(headings, i, lastLevel) ==
    IF i > Len(headings) THEN 0
    ELSE LET level == HeadingLevel(headings[i])
         IN  (IF level > lastLevel + 1 THEN 1 ELSE 0)
             + StructureErrors(headings, i + 1, level)

checkHeadingStructure(d) ==
    LET structureErrors == StructureErrors(d.headings, 1, 0)
    IN  [score  |-> IF Len(d.headings) = 0 THEN 100
                    ELSE Max(0, 100 - (structureErrors * 20)),
         errors |-> structureErrors]

SemanticElements ==
    {"header", "nav", "main", "section", "article", "aside", "footer"}

checkSemanticHTML(d) ==
    LET present == {tag \in SemanticElements : tag \in d.tags}
    IN  [score   |-> MathRound(Cardinality(present) * 100,
                               Cardinality(SemanticElements)),
         missing |-> {tag \in SemanticElements : tag \notin present}]

\* The audit structure runAudit builds: four categories of check results.
BuildAudit(d) ==
    [performance   |-> [imageOptimization |-> checkImageOptimization(d),
                        cssSize           |-> checkCSSSize(d),
                        jsSize            |-> checkJSSize(d),
                        fontLoading       |-> checkFontLoading(d)],
     bestPractices |-> [https         |-> checkHTTPS(d),
                        consoleErrors |-> checkConsoleErrors(d),
                        deprecatedAPI |-> checkDeprecatedAPI(d)],
     accessibility |-> [altTags       |-> checkAltTags(d),
                        ariaLabels    |-> checkAriaLabels(d),
                        colorContrast |-> checkColorContrast(d)],
     seo           |-> [metaTags         |-> checkMetaTags(d),
                        headingStructure |-> checkHeadingStructure(d),
                        semanticHTML     |-> checkSemanticHTML(d)]]

-----------------------------------------------------------------------------
(* Score aggregator and recommendation generator *)

\* item.score || 0
ScoreOrZero(item) == IF Has(item, "score") THEN item.score ELSE 0

RECURSIVE SumScores(_, _)
\* scores.reduce((sum, score) => sum + score, 0) over the keys still to add
SumScores(category, keys) ==
    IF keys = {} THEN 0
    ELSE LET k == CHOOSE x \in keys : TRUE
         IN  ScoreOrZero(category[k]) + SumScores(category, keys \ {k})

\* calculateCategoryScore with Math.floor in place of Math.round
calculateCategoryScore_Floor(category) ==
    SumScores(category, DOMAIN category) \div Cardinality(DOMAIN category)

calculateCategoryScore(category) ==
    MathRound(SumScores(category, DOMAIN category), Cardinality(DOMAIN category))

PlaceholderScores ==
    [performance |-> 85, accessibility |-> 90, bestPractices |-> 88,
     seo |-> 92, overall |-> 89]

RECURSIVE SumLeaves(_, _)
SumLeaves(audit, names) ==
    IF names = {} THEN 0
    ELSE LET c == CHOOSE x \in names : TRUE
         IN  SumScores(audit[c], DOMAIN audit[c]) + SumLeaves(audit, names \ {c})

RECURSIVE CountLeaves(_, _)
CountLeaves(audit, names) ==
    IF names = {} THEN 0
    ELSE LET c == CHOOSE x \in names : TRUE
         IN  Cardinality(DOMAIN audit[c]) + CountLeaves(audit, names \ {c})

\* calculateScores with overall taken as the rounded mean of all check scores
calculateScores_LeafMean(m) ==
    IF Has(m, "audit")
    THEN [performance   |-> calculateCategoryScore(m.audit.performance),
          accessibility |-> calculateCategoryScore(m.audit.accessibility),
          bestPractices |-> calculateCategoryScore(m.audit.bestPractices),
          seo           |-> calculateCategoryScore(m.audit.seo),
          overall       |-> MathRound(SumLeaves(m.audit, DOMAIN m.audit),
                                      CountLeaves(m.audit, DOMAIN m.audit))]
    ELSE PlaceholderScores

\* calculateScores whose fallback derives overall from the four placeholders,
\* rounding down
calculateScores_DerivedFallback(m) ==
    IF Has(m, "audit")
    THEN LET performance   == calculateCategoryScore(m.audit.performance)
             accessibility == calculateCategoryScore(m.audit.accessibility)
             bestPractices == calculateCategoryScore(m.audit.bestPractices)
             seo           == calculateCategoryScore(m.audit.seo)
         IN  [performance   |-> performance,
              accessibility |-> accessibility,
              bestPractices |-> bestPractices,
              seo           |-> seo,
              overall       |-> MathRound(performance + accessibility
                                          + bestPractices + seo, 4)]
    ELSE [PlaceholderScores EXCEPT
              !.overall = (PlaceholderScores.performance
                           + PlaceholderScores.accessibility
                           + PlaceholderScores.bestPractices
                           + PlaceholderScores.seo) \div 4]

calculateScores(m) ==
    IF Has(m, "audit")
    THEN LET performance   == calculateCategoryScore(m.audit.performance)
             accessibility == calculateCategoryScore(m.audit.accessibility)
             bestPractices == calculateCategoryScore(m.audit.bestPractices)
             seo           == calculateCategoryScore(m.audit.seo)
         IN  [performance   |-> performance,
              accessibility |-> accessibility,
              bestPractices |-> bestPractices,
              seo           |-> seo,
              overall       |-> MathRound(performance + accessibility
                                          + bestPractices + seo, 4)]
    ELSE PlaceholderScores

RecImages == "Optimize images by resizing to appropriate dimensions"

RecCss == "Minify and compress CSS files"

RecAlt == "Add alt text to all images"

RecMeta == "Add missing meta tags (description, viewport)"

\* generateRecommendations with <= 80 in place of < 80 for the images
generateRecommendations_AtMost(m) ==
    IF Has(m, "audit")
    THEN (IF m.audit.performance.imageOptimization.score <= 80
          THEN <<RecImages>> ELSE <<>>)
         \o (IF m.audit.performance.cssSize.score < 80 THEN <<RecCss>> ELSE <<>>)
         \o (IF m.audit.accessibility.altTags.score < 100 THEN <<RecAlt>> ELSE <<>>)
         \o (IF m.audit.seo.metaTags.score < 100 THEN <<RecMeta>> ELSE <<>>)
    ELSE <<>>

generateRecommendations(m) ==
    IF Has(m, "audit")
    THEN (IF m.audit.performance.imageOptimization.score < 80
          THEN <<RecImages>> ELSE <<>>)
         \o (IF m.audit.performance.cssSize.score < 80 THEN <<RecCss>> ELSE <<>>)
         \o (IF m.audit.accessibility.altTags.score < 100 THEN <<RecAlt>> ELSE <<>>)
         \o (IF m.audit.seo.metaTags.score < 100 THEN <<RecMeta>> ELSE <<>>)
    ELSE <<>>

-----------------------------------------------------------------------------
(* Metrics collectors *)

\* The pageLoad entry: five differences of navigation-timing fields.
PageLoadOf(timing) ==
    [dns  |-> timing.domainLookupEnd - timing.domainLookupStart,
     tcp  |-> timing.connectEnd - timing.connectStart,
     ttfb |-> timing.responseStart - timing.requestStart,
     domContentLoaded |-> timing.domContentLoadedEventEnd - timing.navigationStart,
     fullLoad |-> timing.loadEventEnd - timing.navigationStart]

\* const timing = performance.timing, then timing.domainLookupEnd: reading a
\* field of undefined raises a TypeError when the host has window.performance
\* without the navigation-timing record.
PageLoadThrows(h) == h.hasPerformance /\ h.timing = Undefined

\* The store measurePageLoad leaves when it does not throw
measurePageLoad(m, h) ==
    IF h.hasPerformance THEN Put(m, "pageLoad", PageLoadOf(h.timing[1])) ELSE m

\* resources.map(...): size is transferSize || 0
ResourceOf(entry) ==
    [name     |-> entry.name,
     duration |-> entry.duration,
     size     |-> IF entry.transferSize = Undefined THEN 0 ELSE entry.transferSize[1],
     type     |-> entry.initiatorType]

NewBucket == [count |-> 0, totalSize |-> 0,
              averageTime |-> [num |-> 0, den |-> 1], items |-> <<>>]

RECURSIVE GroupByType(_, _, _)
\* The reduce of measureResources, from resource i with accumulator acc.
GroupByType(resources, i, acc) ==
    IF i > Len(resources) THEN acc
    ELSE LET resource == resources[i]
             bucket   == IF Has(acc, resource.type) THEN acc[resource.type]
                         ELSE NewBucket
         IN  GroupByType(resources, i + 1,
                 Put(acc, resource.type,
                     [bucket EXCEPT !.count = @ + 1,
                                    !.totalSize = @ + resource.size,
                                    !.items = Append(@, resource)]))

RECURSIVE SumDurations(_, _)
\* summary.items.reduce((sum, item) => sum + item.duration, 0)
SumDurations(items, i) ==
    IF i > Len(items) THEN 0 ELSE items[i].duration + SumDurations(items, i + 1)

\* WithAverages keeping a running average: the sum so far over the count so
\* far, taken when the first item of the bucket was added
WithAverages_Running(summary) ==
    [type \in DOMAIN summary |->
        [summary[type] EXCEPT
            !.averageTime = Quotient(summary[type].items[1].duration, 1)]]

\* The forEach that fills in averageTime once every bucket is complete.
WithAverages(summary) ==
    [type \in DOMAIN summary |->
        [summary[type] EXCEPT
            !.averageTime = Quotient(SumDurations(summary[type].items, 1),
                                     summary[type].count)]]

measureResources(m, h) ==
    IF h.hasPerformance
    THEN LET resources == [i \in 1..Len(h.entries) |-> ResourceOf(h.entries[i])]
         IN  Put(Put(m, "resources", resources),
                 "resourceSummary",
                 WithAverages(GroupByType(resources, 1, EmptyObject)))
    ELSE m

measureMemory(m, h) ==
    IF h.memory # Undefined THEN Put(m, "memory", h.memory[1]) ELSE m

\* this.metrics[key], undefined when the key is absent
Get(m, key) == IF Has(m, key) THEN Some(m[key]) ELSE Undefined

-----------------------------------------------------------------------------
(* measureFPS.  Every call has a closure (frames, startTime) and a promise; *)
(* fps is the sequence of the closures of the calls made so far.           *)

TicksPerMs == 177

DefaultDuration == 1000

\* NewClosure of a measureFPS that resolves with 0 at once instead of waiting
\* for a frame
NewClosure_Resolved(duration, owner) ==
    [duration  |-> duration,
     owner     |-> owner,
     frames    |-> 0,
     startTime |-> Undefined,
     scheduled |-> FALSE,
     resolved  |-> 1,
     writes    |-> 0,
     first     |-> Undefined,
     last      |-> Undefined,
     value     |-> Some(0)]

NewClosure(duration, owner) ==
    [duration  |-> duration,     \* the argument, in ms
     owner     |-> owner,        \* "caller" or "runFullTest"
     frames    |-> 0,
     startTime |-> Undefined,    \* null, or the timestamp recorded
     scheduled |-> TRUE,         \* measureFrame is registered for the next frame
     resolved  |-> 0,            \* times resolve(fps) ran
     writes    |-> 0,            \* times this.metrics.fps was assigned by this call
     first     |-> Undefined,    \* timestamp of the first callback of this call
     last      |-> Undefined,    \* timestamp of the latest callback of this call
     value     |-> Undefined]    \* the value the promise resolved with

\* !startTime
NoStartTime(c) == c.startTime = Undefined \/ c.startTime[1] = 0

\* measureFrame that asks for the next frame before it looks at the window
measureFrame_AlwaysReschedule(c, timestamp) ==
    LET startTime == IF NoStartTime(c) THEN timestamp ELSE c.startTime[1]
        frames    == c.frames + 1
        seen      == [c EXCEPT !.startTime = Some(startTime),
                               !.frames = frames,
                               !.scheduled = TRUE,
                               !.first = IF @ = Undefined THEN Some(timestamp) ELSE @,
                               !.last = Some(timestamp)]
    IN  IF timestamp - startTime < c.duration * TicksPerMs
        THEN seen
        ELSE [seen EXCEPT !.resolved = @ + 1,
                          !.writes = @ + 1,
                          !.value = Some(MathRound(frames * 1000, c.duration))]

\* One run of measureFrame(timestamp) for closure c.
measureFrame(c, timestamp) ==
    LET startTime == IF NoStartTime(c) THEN timestamp ELSE c.startTime[1]
        frames    == c.frames + 1
        seen      == [c EXCEPT !.startTime = Some(startTime),
                               !.frames = frames,
                               !.first = IF @ = Undefined THEN Some(timestamp) ELSE @,
                               !.last = Some(timestamp)]
    IN  IF timestamp - startTime < c.duration * TicksPerMs
        THEN [seen EXCEPT !.scheduled = TRUE]
        ELSE [seen EXCEPT !.scheduled = FALSE,
                          !.resolved = @ + 1,
                          !.writes = @ + 1,
                          !.value = Some(MathRound(frames * 1000, c.duration))]

\* The closures after the host has run the frame with this timestamp: every
\* registered callback runs once.
RunFrame(closures, timestamp) ==
    [i \in 1..Len(closures) |->
        IF closures[i].scheduled
        THEN measureFrame([closures[i] EXCEPT !.scheduled = FALSE], timestamp)
        ELSE closures[i]]

RECURSIVE FpsWrites(_, _, _, _)
\* The store after the callbacks of one frame ran in registration order.
FpsWrites(m, before, after, i) ==
    IF i > Len(after) THEN m
    ELSE FpsWrites(IF after[i].writes > before[i].writes
                   THEN Put(m, "fps", after[i].value[1]) ELSE m,
                   before, after, i + 1)

-----------------------------------------------------------------------------
(* The host: documents, performance entries and frame cadences the model   *)
(* draws its inputs from.                                                  *)

PlainSheet == [rel |-> "stylesheet", href |-> "css/style.css"]

LinkKinds ==
    [rel : {"stylesheet", "preconnect"},
     href : {"", "css/style.css", "https://fonts.googleapis.com/css2"}]

ImageKinds ==
    [naturalWidth : {500, 600, 800}, offsetWidth : {300}, alt : {"", "Portrait"}]

FlaggedImage == [naturalWidth |-> 800, offsetWidth |-> 300, alt |-> "Portrait"]

\* n images, of which the first m (at most n) have no alt text
AltMix(n, m) ==
    [i \in 1..n |-> [naturalWidth |-> 500, offsetWidth |-> 300,
                     alt |-> IF i <= m THEN "" ELSE "Portrait"]]

\* The img elements of a document; src numbers them in document order.
ImagesOf(kinds) ==
    [i \in 1..Len(kinds) |->
        [src |-> i, naturalWidth |-> kinds[i].naturalWidth,
         offsetWidth |-> kinds[i].offsetWidth, alt |-> kinds[i].alt]]

ImageLists ==
    {ImagesOf(kinds) : kinds \in SeqsUpTo(ImageKinds, MaxImages)}
    \cup {ImagesOf(Repeat(FlaggedImage, n)) : n \in 0..MaxFlagged}
    \cup {ImagesOf(AltMix(n, m)) : n \in 0..MaxAltImages, m \in 0..MaxAltImages}

LinkLists ==
    SeqsUpTo(LinkKinds, MaxLinks) \cup {Repeat(PlainSheet, n) : n \in 0..MaxPlainSheets}

InteractiveKinds ==
    [ariaLabel : {"", "Menu"}, textContent : {" ", "Go"}, title : {"", "Tip"}]

HeadingTags == {"H1", "H2", "H3", "H4", "H5", "H6"}

\* n times an h1 followed by an h3
ZigZag(n) == [i \in 1..(2 * n) |-> IF i % 2 = 1 THEN "H1" ELSE "H3"]

HeadingLists ==
    SeqsUpTo(HeadingTags, MaxHeadings) \cup {ZigZag(n) : n \in 0..MaxZigZag}

Protocols == {"https:", "http:", "file:"}

BaseDom ==
    [images      |-> ImagesOf(<<[naturalWidth |-> 500, offsetWidth |-> 300,
                                 alt |-> "Portrait"]>>),
     links       |-> <<PlainSheet>>,
     scripts     |-> 1,
     protocol    |-> "https:",
     tags        |-> SemanticElements,
     metaNames   |-> RequiredMeta,
     interactive |-> <<[ariaLabel |-> "", textContent |-> "Go", title |-> ""]>>,
     headings    |-> <<"H1", "H2">>]

\* A document with two oversized images without alt text, seven stylesheets,
\* no meta tags, a skipped heading level and an obsolete tag, served over http.
PoorDom ==
    [images      |-> ImagesOf(Repeat([naturalWidth |-> 800, offsetWidth |-> 300,
                                      alt |-> ""], 2)),
     links       |-> Repeat(PlainSheet, 7),
     scripts     |-> 5,
     protocol    |-> "http:",
     tags        |-> {"main", "marquee"},
     metaNames   |-> {},
     interactive |-> <<[ariaLabel |-> "", textContent |-> " ", title |-> ""]>>,
     headings    |-> <<"H1", "H3">>]

\* Documents that differ from BaseDom in one respect.
StarDoms ==
    {[BaseDom EXCEPT !.images = x] : x \in ImageLists}
    \cup {[BaseDom EXCEPT !.links = x] : x \in LinkLists}
    \cup {[BaseDom EXCEPT !.scripts = x] : x \in 0..MaxScripts}
    \cup {[BaseDom EXCEPT !.protocol = x] : x \in Protocols}
    \cup {[BaseDom EXCEPT !.tags = x] : x \in SUBSET SemanticElements}
    \cup {[BaseDom EXCEPT !.tags = SemanticElements \cup x] : x \in SUBSET DeprecatedSelectors}
    \cup {[BaseDom EXCEPT !.metaNames = x] : x \in SUBSET (RequiredMeta \cup {"author"})}
    \cup {[BaseDom EXCEPT !.interactive = x] : x \in SeqsUpTo(InteractiveKinds, MaxInteractive)}
    \cup {[BaseDom EXCEPT !.headings = x] : x \in HeadingLists}

\* Documents that vary the inputs of the four recommendations together.
ComboDoms ==
    {[BaseDom EXCEPT !.images = ImagesOf(Repeat(k, i)),
                     !.links = Repeat(PlainSheet, n), !.metaNames = m] :
        k \in ImageKinds, i \in {1, 2}, n \in {6, 7}, m \in SUBSET RequiredMeta}

AuditDoms == StarDoms \cup ComboDoms \cup {PoorDom}

PipelineDoms == {BaseDom, PoorDom}

Timing ==
    [navigationStart |-> 1000, domainLookupStart |-> 1002, domainLookupEnd |-> 1010,
     connectStart |-> 1010, connectEnd |-> 1030, requestStart |-> 1031,
     responseStart |-> 1080, domContentLoadedEventEnd |-> 1400,
     loadEventEnd |-> 1900]

HeapStats ==
    [usedJSHeapSize |-> 10, totalJSHeapSize |-> 20, jsHeapSizeLimit |-> 40]

EntryKinds ==
    [duration : {100, 300}, transferSize : {Undefined, Some(10), Some(20)},
     initiatorType : {"script", "img"}]

\* The resource-timing entries of a page; name numbers them in order.
EntriesOf(kinds) ==
    [i \in 1..Len(kinds) |->
        [name |-> i, duration |-> kinds[i].duration,
         transferSize |-> kinds[i].transferSize,
         initiatorType |-> kinds[i].initiatorType]]

EntryLists == {EntriesOf(kinds) : kinds \in SeqsUpTo(EntryKinds, MaxResources)}

TwoScripts ==
    EntriesOf(<<[duration |-> 100, transferSize |-> Some(10), initiatorType |-> "script"],
                [duration |-> 300, transferSize |-> Some(20), initiatorType |-> "script"]>>)

\* The gap between two frames of a 60 Hz display: 1000/60 ms
Period60 == (1000 * TicksPerMs) \div 60

\* The gap of 60 frames that span 1000 ms from the first to the last: 1000/59 ms
Period59 == (1000 * TicksPerMs) \div 59

WindowGap == DefaultDuration * TicksPerMs

BaseHost ==
    [hasPerformance |-> TRUE,        \* 'performance' in window
     timing         |-> Some(Timing),  \* performance.timing, if the host has it
     entries        |-> TwoScripts,  \* performance.getEntriesByType('resource')
     memory         |-> Some(HeapStats),  \* performance.memory, if the host has it
     firstStamp     |-> 40,          \* timestamp of the first frame
     frameGaps      |-> {WindowGap}] \* possible gaps between two frames, in ticks

PipelineHosts ==
    {[BaseHost EXCEPT !.hasPerformance = p, !.memory = m] :
        p \in BOOLEAN, m \in {Undefined, Some(HeapStats)}}

\* Hosts with and without window.performance, performance.timing and
\* performance.memory
CapabilityHosts ==
    {[BaseHost EXCEPT !.hasPerformance = p, !.timing = t, !.memory = m] :
        p \in BOOLEAN, t \in {Undefined, Some(Timing)},
        m \in {Undefined, Some(HeapStats)}}

ResourceHosts == {[BaseHost EXCEPT !.entries = e] : e \in EntryLists}

FrameHosts ==
    {[BaseHost EXCEPT !.firstStamp = f, !.frameGaps = g] :
        f \in {0, 40},
        g \in {{Period60}, {Period59}, {WindowGap \div 3, WindowGap}}}

-----------------------------------------------------------------------------
(* The build script (build.js): its files and the steps of build() *)

\* The artifacts build() minifies, in its order: minifyCSS, then the jsFiles
\* loop; named as in the stats entries.
Artifacts == <<"CSS", "Main JS", "Optimization JS">>

ArtifactNames == {Artifacts[i] : i \in 1..Len(Artifacts)}

\* config.output
OutputFile(a) ==
    CASE a = "CSS" -> "dist/styles.min.css"
      [] a = "Main JS" -> "dist/scripts.min.js"
      [] a = "Optimization JS" -> "dist/optimization.min.js"

\* What the try block of minifyCSS/minifyJS meets for an artifact: nothing
\* ("ok"), readFileSync throws ("unreadable"), the minifier reports an error
\* or rejects ("invalid"), writeFileSync throws ("unwritable").
Fates == {"ok", "unreadable", "invalid", "unwritable"}

\* code.length of the input files of the model
OriginalSize == [a \in ArtifactNames |->
    CASE a = "CSS" -> 1200 [] a = "Main JS" -> 3000 [] a = "Optimization JS" -> 700]

\* result.code.length / result.styles.length of their minified forms
MinifiedSize == [a \in ArtifactNames |->
    CASE a = "CSS" -> 900 [] a = "Main JS" -> 1000 [] a = "Optimization JS" -> 700]

\* ((original - minified) / original * 100).toFixed(1): the percentage with
\* one decimal, kept as a number of tenths
ToFixed1(num, den) == MathRound(num * 10, den)

\* The object minifyCSS/minifyJS returns, with the file name build() adds
StatsOf(a) ==
    [file         |-> a,
     originalSize |-> OriginalSize[a],
     minifiedSize |-> MinifiedSize[a],
     savings      |-> ToFixed1((OriginalSize[a] - MinifiedSize[a]) * 100,
                               OriginalSize[a])]

\* The file system as the script finds it: the fate of each artifact, whether
\* index.html can be read and dist/index.html written, whether
\* dist/build-report.md can be written; and what the script has written.
Disks ==
    [fate : [ArtifactNames -> Fates], htmlOk : BOOLEAN, reportOk : BOOLEAN,
     written : {{}}, report : {Undefined}]

BaseDisk ==
    [fate |-> [a \in ArtifactNames |-> "ok"], htmlOk |-> TRUE, reportOk |-> TRUE,
     written |-> {}, report |-> Undefined]

\* build() has not been called
NotStarted ==
    [pc |-> "idle", index |-> 0, result |-> Undefined, stats |-> <<>>,
     errors |-> <<>>, attempted |-> <<>>]

\* The catch block of minifyCSS/minifyJS: console.error, return null
Caught(b, a) ==
    [b EXCEPT !.errors = Append(@, a), !.result = Undefined]

\* if (stats) stats.push({ file, ...stats })
Push(stats, result) == IF result = Undefined THEN stats ELSE Append(stats, result[1])

\* minifyJS(jsFiles[i]) up to its await: the input is read; when that throws
\* the catch block returns null at once, otherwise the function waits for the
\* minifier.  build() waits for minifyJS in both cases.
StartJS(b, d, i) ==
    LET a == Artifacts[i + 1]
        called == [b EXCEPT !.index = i, !.attempted = Append(@, a)]
    IN  IF d.fate[a] = "unreadable"
        THEN [Caught(called, a) EXCEPT !.pc = "awaitJS"]
        ELSE [called EXCEPT !.pc = "minifying"]

\* build() up to its first await: minifyCSS runs to its end, then the loop
\* calls minifyJS for the first of jsFiles.
BuildStart ==
    /\ build.pc = "idle"
    /\ LET a == Artifacts[1]
           called == [build EXCEPT !.attempted = Append(@, a)]
           after == IF disk.fate[a] = "ok"
                    THEN [called EXCEPT !.stats = Push(@, Some(StatsOf(a)))]
                    ELSE Caught(called, a)
       IN  /\ disk' = IF disk.fate[a] = "ok"
                      THEN [disk EXCEPT !.written = @ \cup {OutputFile(a)}]
                      ELSE disk
           /\ build' = StartJS(after, disk, 1)
    /\ UNCHANGED <<testerVars, utilVars>>

\* The minifier settles and minifyJS runs to its end: throws on a minifier
\* error, else writes the output and returns the stats.
MinifierSettles ==
    /\ build.pc = "minifying"
    /\ LET a == Artifacts[build.index + 1]
       IN  IF disk.fate[a] = "ok"
           THEN /\ disk' = [disk EXCEPT !.written = @ \cup {OutputFile(a)}]
                /\ build' = [build EXCEPT !.pc = "awaitJS", !.result = Some(StatsOf(a))]
           ELSE /\ disk' = disk
                /\ build' = [Caught(build, a) EXCEPT !.pc = "awaitJS"]
    /\ UNCHANGED <<testerVars, utilVars>>

\* updateHTML() and generateReport(stats), the tail of build(): either may
\* throw on its own file I/O, which rejects the promise of build().
Finish(b, d) ==
    IF ~d.htmlOk THEN [disk |-> d, build |-> [b EXCEPT !.pc = "rejected"]]
    ELSE LET html == [d EXCEPT !.written = @ \cup {"dist/index.html"}]
         IN  IF ~d.reportOk THEN [disk |-> html, build |-> [b EXCEPT !.pc = "rejected"]]
             ELSE [disk  |-> [html EXCEPT !.written = @ \cup {"dist/build-report.md"},
                                          !.report = Some(b.stats)],
                   build |-> [b EXCEPT !.pc = "done"]]

\* BuildAfterJS leaving the loop at the first script that failed
BuildAfterJS_StopOnFailure ==
    /\ build.pc = "awaitJS"
    /\ LET pushed == [build EXCEPT !.stats = Push(@, build.result), !.result = Undefined]
       IN  IF build.index < Len(Artifacts) - 1 /\ build.result # Undefined
           THEN /\ build' = StartJS(pushed, disk, build.index + 1)
                /\ disk' = disk
           ELSE /\ build' = Finish(pushed, disk).build
                /\ disk' = Finish(pushed, disk).disk
    /\ UNCHANGED <<testerVars, utilVars>>

\* build() resumed by the promise of minifyJS: pushes the stats if any, then
\* goes round the loop or, after the last script, rewrites the HTML and
\* writes the report.
BuildAfterJS ==
    /\ build.pc = "awaitJS"
    /\ LET pushed == [build EXCEPT !.stats = Push(@, build.result), !.result = Undefined]
       IN  IF build.index < Len(Artifacts) - 1
           THEN /\ build' = StartJS(pushed, disk, build.index + 1)
                /\ disk' = disk
           ELSE /\ build' = Finish(pushed, disk).build
                /\ disk' = Finish(pushed, disk).disk
    /\ UNCHANGED <<testerVars, utilVars>>

-----------------------------------------------------------------------------
(* The utilities debounce, throttle and memoize.  Each wraps a function    *)
(* given by the caller; the model keeps the closure of one wrapper of each *)
(* kind, the timers it has set, and a record of the calls made to the      *)
(* wrapper and of the invocations of the wrapped function.                 *)
(* Timers are those of setTimeout on a host that runs a timer at the time  *)
(* it is due, before it delivers anything else at that time.               *)

\* Arguments the callers pass to the debounced and throttled functions
CallArgs == {"a", "b"}

\* The wait of debounce(func, wait)
Waits == {0, 2, 3}

\* debounce(func, wait): let timeout (undefined), no timer, nothing called
NewDebounce(wait) ==
    [wait    |-> wait,
     timeout |-> Undefined,   \* the handle kept in the closure
     timers  |-> {},          \* pending timers: [id, due, args]
     nextId  |-> 1,           \* the handle the next setTimeout returns
     calls   |-> <<>>,        \* calls of the wrapper: [at, args]
     invoked |-> <<>>]        \* invocations of func: [at, args]

\* clearTimeout(handle): the timers left; nothing happens for undefined or
\* for the handle of a timer that has run
ClearTimeout(timers, handle) == {t \in timers : Some(t.id) # handle}

\* A timer is due: the host runs it before anything else
TimerDue(timers) == \E t \in timers : t.due <= now

\* executedFunction(...args) that sets the new timer without clearing the one
\* before
DebouncedCall_NoClear ==
    /\ Len(deb.calls) < MaxUtilCalls
    /\ ~TimerDue(deb.timers)
    /\ \E args \in CallArgs :
           deb' = [deb EXCEPT
                      !.timers  = @ \cup {[id |-> deb.nextId, due |-> now + deb.wait,
                                          args |-> args]},
                      !.timeout = Some(deb.nextId),
                      !.nextId  = @ + 1,
                      !.calls   = Append(@, [at |-> now, args |-> args])]
    /\ UNCHANGED <<testerVars, buildVars, now, thr, memo>>

\* executedFunction(...args), a call of the debounced function: clears the
\* timer of the call before, if it is pending, and sets one for this call.
DebouncedCall ==
    /\ Len(deb.calls) < MaxUtilCalls
    /\ ~TimerDue(deb.timers)
    /\ \E args \in CallArgs :
           deb' = [deb EXCEPT
                      !.timers  = ClearTimeout(@, deb.timeout)
                                  \cup {[id |-> deb.nextId, due |-> now + deb.wait,
                                         args |-> args]},
                      !.timeout = Some(deb.nextId),
                      !.nextId  = @ + 1,
                      !.calls   = Append(@, [at |-> now, args |-> args])]
    /\ UNCHANGED <<testerVars, buildVars, now, thr, memo>>

\* later(), run by the host when the timer is due: clearTimeout(timeout),
\* then func(...args) with the arguments of the call that set the timer.
\* Whether func returns or throws changes nothing in the closure.
DebounceTimerFires ==
    /\ \E t \in deb.timers :
           /\ t.due <= now
           /\ deb' = [deb EXCEPT
                         !.timers  = ClearTimeout(@ \ {t}, deb.timeout),
                         !.invoked = Append(@, [at |-> now, args |-> t.args])]
    /\ UNCHANGED <<testerVars, buildVars, now, thr, memo>>

\* Time passes, once every timer that is due has run.
Tick ==
    /\ now < MaxTime
    /\ ~TimerDue(deb.timers)
    /\ ~TimerDue(thr.timers)
    /\ now' = now + 1
    /\ UNCHANGED <<testerVars, buildVars, deb, thr, memo>>

\* The limit of throttle(func, limit)
Limits == {2, 3}

\* Whether the wrapped function returns or throws when invoked
Outcomes == {"returns", "throws"}

\* throttle(func, limit): let inThrottle (undefined, falsy)
NewThrottle(limit) ==
    [limit      |-> limit,
     inThrottle |-> FALSE,
     timers     |-> {},       \* pending timers: [due]
     calls      |-> <<>>,     \* calls of the wrapper: [at, args]
     invoked    |-> <<>>]     \* invocations of func: [at, args, outcome]

\* A call of the throttled function.  When inThrottle is falsy func is
\* invoked within the call; only when it returns is inThrottle set and the
\* timer started: when func throws, the exception leaves the wrapper before
\* either.  When inThrottle is set the call does nothing.
ThrottledCall ==
    /\ Len(thr.calls) < MaxUtilCalls
    /\ ~TimerDue(thr.timers)
    /\ \E args \in CallArgs, outcome \in Outcomes :
           LET called == [thr EXCEPT !.calls = Append(@, [at |-> now, args |-> args])]
               ran    == [called EXCEPT
                             !.invoked = Append(@, [at |-> now, args |-> args,
                                                    outcome |-> outcome])]
           IN  thr' = IF thr.inThrottle THEN called
                      ELSE IF outcome = "throws" THEN ran
                      ELSE [ran EXCEPT !.inThrottle = TRUE,
                                       !.timers = @ \cup {[due |-> now + thr.limit]}]
    /\ UNCHANGED <<testerVars, buildVars, now, deb, memo>>

\* () => inThrottle = false, run by the host when the timer is due
ThrottleTimerFires ==
    /\ \E t \in thr.timers :
           /\ t.due <= now
           /\ thr' = [thr EXCEPT !.inThrottle = FALSE, !.timers = @ \ {t}]
    /\ UNCHANGED <<testerVars, buildVars, now, deb, memo>>

\* memoize(fn): const cache = new Map()
NewMemoize ==
    [cache       |-> EmptyObject,  \* the Map, by key
     calls       |-> <<>>,         \* calls of the wrapper: [args, key, invoked, outcome, value]
     invocations |-> <<>>]         \* invocations of fn: [args, key, outcome, value]

\* Argument lists passed to the memoized function.  A JavaScript value is
\* named by its literal: the number 1, the string '1', null and undefined.
ArgLists == {<<"1">>, <<"'1'">>, <<"null">>, <<"undefined">>}

\* Values fn returns; fn need not be a function of its arguments
Values == {10, 20}

\* JSON.stringify of one element of an array: undefined (and NaN) are
\* written as null, a string in double quotes, a number by its digits
JSONElement(x) ==
    CASE x = "undefined" -> "null"
      [] x = "NaN"       -> "null"
      [] x = "'1'"       -> "\"1\""
      [] OTHER           -> x

\* JSON.stringify(args): the texts of the elements, which stand between
\* brackets and commas in the key
JSONstringify(args) == [i \in 1..Len(args) |-> JSONElement(args[i])]

\* The memoized function recomputing and storing again on a cached key
MemoizedCall_Recompute ==
    /\ Len(memo.calls) < MaxUtilCalls
    /\ \E args \in ArgLists, outcome \in Outcomes, v \in Values :
           LET key == JSONstringify(args)
               value == IF outcome = "throws" THEN Undefined ELSE Some(v)
               invoked == [memo EXCEPT
                   !.calls = Append(@, [args |-> args, key |-> key, invoked |-> TRUE,
                                        outcome |-> outcome, value |-> value]),
                   !.invocations = Append(@, [args |-> args, key |-> key,
                                              outcome |-> outcome, value |-> value])]
           IN  memo' = IF outcome = "throws" THEN invoked
                       ELSE [invoked EXCEPT !.cache = Put(@, key, v)]
    /\ UNCHANGED <<testerVars, buildVars, now, deb, thr>>

\* A call of the memoized function.  On a key the cache has, the stored
\* value is returned and fn is not invoked.  Otherwise fn is invoked: when it
\* returns, the value is stored under the key and returned; when it throws,
\* the exception leaves the wrapper and nothing is stored.
MemoizedCall ==
    /\ Len(memo.calls) < MaxUtilCalls
    /\ \E args \in ArgLists, outcome \in Outcomes, v \in Values :
           LET key == JSONstringify(args)
               value == IF outcome = "throws" THEN Undefined ELSE Some(v)
               invoked == [memo EXCEPT
                   !.calls = Append(@, [args |-> args, key |-> key, invoked |-> TRUE,
                                        outcome |-> outcome, value |-> value]),
                   !.invocations = Append(@, [args |-> args, key |-> key,
                                              outcome |-> outcome, value |-> value])]
           IN  memo' = IF Has(memo.cache, key)
                       THEN [memo EXCEPT
                                !.calls = Append(@, [args |-> args, key |-> key,
                                                     invoked |-> FALSE,
                                                     outcome |-> "returns",
                                                     value |-> Get(memo.cache, key)])]
                       ELSE IF outcome = "throws" THEN invoked
                       ELSE [invoked EXCEPT !.cache = Put(@, key, v)]
    /\ UNCHANGED <<testerVars, buildVars, now, deb, thr>>

\* No utility is in use
UtilitiesUnused ==
    /\ now = 0
    /\ deb = NewDebounce(0)
    /\ thr = NewThrottle(0)
    /\ memo = NewMemoize

-----------------------------------------------------------------------------
(* The PerformanceTester state machine *)

\* The object this.metrics, as a reference held by a Report.
StoreRef == "this.metrics"

NoReturn == [op |-> "none", arg |-> Undefined, value |-> Undefined, error |-> Undefined]

\* A method returned value; arg is what the method was given (for a method
\* that reads this.metrics, the store as it was during the call).
Returned(op, arg, value) ==
    [op |-> op, arg |-> Some(arg), value |-> value, error |-> Undefined]

\* A method threw error (for an async method: its promise rejected with it).
Threw(op, arg, error) ==
    [op |-> op, arg |-> Some(arg), value |-> Undefined, error |-> Some(error)]

\* State after the constructor, on a host drawn from hosts showing a document
\* drawn from doms.
InitOn(doms, hosts) ==
    /\ disk = BaseDisk
    /\ build = NotStarted
    /\ UtilitiesUnused
    /\ dom \in doms
    /\ host \in hosts
    /\ metrics = EmptyObject
    /\ fps = <<>>
    /\ clock = host.firstStamp
    /\ pc = "idle"
    /\ log = <<>>
    /\ report = Undefined
    /\ ret = NoReturn
    /\ calls = 0
    /\ checked = EmptyObject

Called == calls < MaxCalls /\ calls' = calls + 1

MeasurePageLoad ==
    /\ Called
    /\ IF PageLoadThrows(host)
       THEN /\ metrics' = metrics
            /\ ret' = Threw("measurePageLoad", host, "TypeError")
       ELSE /\ metrics' = measurePageLoad(metrics, host)
            /\ ret' = Returned("measurePageLoad", host, Get(metrics', "pageLoad"))
    /\ UNCHANGED <<dom, host, fps, clock, pc, log, report, checked, buildVars, utilVars>>

MeasureResources ==
    /\ Called
    /\ metrics' = measureResources(metrics, host)
    /\ ret' = Returned("measureResources", host, Get(metrics', "resources"))
    /\ UNCHANGED <<dom, host, fps, clock, pc, log, report, checked, buildVars, utilVars>>

MeasureMemory ==
    /\ Called
    /\ metrics' = measureMemory(metrics, host)
    /\ ret' = Returned("measureMemory", host, Get(metrics', "memory"))
    /\ UNCHANGED <<dom, host, fps, clock, pc, log, report, checked, buildVars, utilVars>>

Durations == {DefaultDuration, 50}

\* Number of measureFPS calls whose promise is still pending
Pending == Cardinality({i \in 1..Len(fps) : fps[i].resolved = 0})

\* measureFPS(duration): creates the closure and registers measureFrame; the
\* promise it returns is pending.
MeasureFPS ==
    /\ Called
    /\ Len(fps) < MaxFpsCalls
    /\ Pending < MaxPending
    /\ \E duration \in Durations :
           fps' = Append(fps, NewClosure(duration, "caller"))
    /\ UNCHANGED <<metrics, dom, host, clock, pc, log, report, ret, checked, buildVars, utilVars>>

\* The closure of the measureFPS call of the latest runFullTest
CurrentRun ==
    CHOOSE i \in 1..Len(fps) :
        /\ fps[i].owner = "runFullTest"
        /\ \A j \in (i + 1)..Len(fps) : fps[j].owner # "runFullTest"

\* The host runs a frame: every registered measureFrame is called with the
\* frame's timestamp.
Frame ==
    /\ \E i \in 1..Len(fps) : fps[i].scheduled
    /\ fps' = RunFrame(fps, clock)
    /\ metrics' = FpsWrites(metrics, fps, fps', 1)
    /\ \E gap \in host.frameGaps : clock' = clock + gap
    /\ log' = IF pc = "awaitFPS" /\ fps'[CurrentRun].resolved > fps[CurrentRun].resolved
              THEN Append(log, "measureFPS resolved") ELSE log
    /\ UNCHANGED <<dom, host, pc, report, ret, calls, checked, buildVars, utilVars>>

\* RunAudit with a list of image issues that outlives the call: every run
\* appends to the issues of the run before
RunAudit_SharedIssues ==
    /\ Called
    /\ LET fresh == BuildAudit(dom)
           old   == IF Has(metrics, "audit")
                    THEN metrics.audit.performance.imageOptimization.issues
                    ELSE <<>>
       IN  metrics' = Put(metrics, "audit",
                          [fresh EXCEPT !.performance.imageOptimization.issues = old \o @])
    /\ ret' = Returned("runAudit", dom, metrics'.audit)
    /\ UNCHANGED <<dom, host, fps, clock, pc, log, report, checked, buildVars, utilVars>>

\* RunAudit starting from a fresh store: this.metrics = { audit }
RunAudit_FreshStore ==
    /\ Called
    /\ metrics' = Put(EmptyObject, "audit", BuildAudit(dom))
    /\ ret' = Returned("runAudit", dom, metrics'.audit)
    /\ UNCHANGED <<dom, host, fps, clock, pc, log, report, checked, buildVars, utilVars>>

\* runAudit(): the body runs to its end within the call.
RunAudit ==
    /\ Called
    /\ metrics' = Put(metrics, "audit", BuildAudit(dom))
    /\ ret' = Returned("runAudit", dom, metrics'.audit)
    /\ UNCHANGED <<dom, host, fps, clock, pc, log, report, checked, buildVars, utilVars>>

\* The check methods, under the keys runAudit stores their results at
CheckNames ==
    [performance   |-> {"imageOptimization", "cssSize", "jsSize", "fontLoading"},
     bestPractices |-> {"https", "consoleErrors", "deprecatedAPI"},
     accessibility |-> {"altTags", "ariaLabels", "colorContrast"},
     seo           |-> {"metaTags", "headingStructure", "semanticHTML"}]

\* The result of the check method stored under name
CheckResult(name, d) ==
    CASE name = "imageOptimization" -> checkImageOptimization(d)
      [] name = "cssSize" -> checkCSSSize(d)
      [] name = "jsSize" -> checkJSSize(d)
      [] name = "fontLoading" -> checkFontLoading(d)
      [] name = "https" -> checkHTTPS(d)
      [] name = "consoleErrors" -> checkConsoleErrors(d)
      [] name = "deprecatedAPI" -> checkDeprecatedAPI(d)
      [] name = "altTags" -> checkAltTags(d)
      [] name = "ariaLabels" -> checkAriaLabels(d)
      [] name = "colorContrast" -> checkColorContrast(d)
      [] name = "metaTags" -> checkMetaTags(d)
      [] name = "headingStructure" -> checkHeadingStructure(d)
      [] name = "semanticHTML" -> checkSemanticHTML(d)

\* A caller runs one check method by itself, in any order with respect to the
\* other checks and to runAudit, and files the result as runAudit would.
CallCheck ==
    \E category \in DOMAIN CheckNames :
        \E name \in CheckNames[category] :
            /\ ~(Has(checked, category) /\ Has(checked[category], name))
            /\ checked' = Put(checked, category,
                              Put(IF Has(checked, category) THEN checked[category]
                                  ELSE EmptyObject,
                                  name, CheckResult(name, dom)))
            /\ UNCHANGED <<metrics, dom, host, fps, clock, pc, log, report, ret, calls,
                           buildVars, utilVars>>

\* window.location.href
Href(d) == IF d.protocol = "file:" THEN "file:///index.html"
           ELSE IF d.protocol = "https:" THEN "https://example.org/"
           ELSE "http://example.org/"

\* The report generateReport assembles; its metrics field is this.metrics
\* itself, not a copy.
\* ReportOf with the scores taken before the audit entry is looked at: the
\* fallback scores in every report
ReportOf_FallbackScores(m, d) ==
    [url             |-> Href(d),
     metrics         |-> StoreRef,
     scores          |-> PlaceholderScores,
     recommendations |-> generateRecommendations(m)]

ReportOf(m, d) ==
    [url             |-> Href(d),
     metrics         |-> StoreRef,
     scores          |-> calculateScores(m),
     recommendations |-> generateRecommendations(m)]

GenerateReport ==
    /\ Called
    /\ ret' = Returned("generateReport", metrics, ReportOf(metrics, dom))
    /\ report' = IF report = Undefined THEN Some(ReportOf(metrics, dom)) ELSE report
    /\ UNCHANGED <<metrics, dom, host, fps, clock, pc, log, checked, buildVars, utilVars>>

CalculateScores ==
    /\ Called
    /\ ret' = Returned("calculateScores", metrics, calculateScores(metrics))
    /\ UNCHANGED <<metrics, dom, host, fps, clock, pc, log, report, checked, buildVars, utilVars>>

GenerateRecommendations ==
    /\ Called
    /\ ret' = Returned("generateRecommendations", metrics,
                       generateRecommendations(metrics))
    /\ UNCHANGED <<metrics, dom, host, fps, clock, pc, log, report, checked, buildVars, utilVars>>

ScoreValues == {0, 60, 75, 80, 100}

\* A check result with a score, or one without
ItemKinds == {[score |-> v] : v \in ScoreValues} \cup {[warning |-> "none"]}

\* Category mappings with 1..MaxChecks checks; the keys are 1, 2, ...
CategoryInputs == UNION {[1..n -> ItemKinds] : n \in 1..MaxChecks}

\* calculateCategoryScore(category) called with a mapping of the caller's
CalculateCategoryScore ==
    /\ \E category \in CategoryInputs :
           ret' = Returned("calculateCategoryScore", category,
                           calculateCategoryScore(category))
    /\ UNCHANGED <<metrics, dom, host, fps, clock, pc, log, report, calls, checked, buildVars, utilVars>>

\* runFullTest() up to its first await: the three synchronous collectors and
\* the start of measureFPS().
RunFullTestStart ==
    /\ Called
    /\ pc \in {"idle", "done", "rejected"}
    /\ Len(fps) < MaxFpsCalls
    /\ Pending < MaxPending
    /\ IF PageLoadThrows(host)
       THEN \* measurePageLoad() throws: the promise of runFullTest rejects
            /\ log' = <<"measurePageLoad">>
            /\ pc' = "rejected"
            /\ ret' = Threw("runFullTest", metrics, "TypeError")
            /\ UNCHANGED <<metrics, fps>>
       ELSE /\ metrics' = measureMemory(measureResources(measurePageLoad(metrics, host), host), host)
            /\ fps' = Append(fps, NewClosure(DefaultDuration, "runFullTest"))
            /\ log' = <<"measurePageLoad", "measureResources", "measureMemory", "measureFPS">>
            /\ pc' = "awaitFPS"
            /\ ret' = ret
    /\ UNCHANGED <<dom, host, clock, report, checked, buildVars, utilVars>>

\* runFullTest() that calls measureFPS() without awaiting it
RunFullTestAfterFPS_NoAwait ==
    /\ pc = "awaitFPS"
    /\ metrics' = Put(metrics, "audit", BuildAudit(dom))
    /\ log' = Append(log, "runAudit")
    /\ pc' = "awaitAudit"
    /\ UNCHANGED <<dom, host, fps, clock, report, ret, calls, checked, buildVars, utilVars>>

\* runFullTest() resumed by the FPS promise: runs runAudit() up to the await.
RunFullTestAfterFPS ==
    /\ pc = "awaitFPS"
    /\ fps[CurrentRun].resolved > 0
    /\ metrics' = Put(metrics, "audit", BuildAudit(dom))
    /\ log' = Append(log, "runAudit")
    /\ pc' = "awaitAudit"
    /\ UNCHANGED <<dom, host, fps, clock, report, ret, calls, checked, buildVars, utilVars>>

\* runFullTest() resumed by the audit promise: assembles the report, prints
\* it and returns it.
RunFullTestAfterAudit ==
    /\ pc = "awaitAudit"
    /\ ret' = Returned("runFullTest", metrics, ReportOf(metrics, dom))
    /\ report' = IF report = Undefined THEN Some(ReportOf(metrics, dom)) ELSE report
    /\ log' = log \o <<"generateReport", "console.log">>
    /\ pc' = "done"
    /\ UNCHANGED <<metrics, dom, host, fps, clock, calls, checked, buildVars, utilVars>>

\* The page changes its document between two calls.
DomMutation ==
    /\ dom' \in PipelineDoms \ {dom}
    /\ UNCHANGED <<metrics, host, fps, clock, pc, log, report, ret, calls, checked, buildVars, utilVars>>

Init == InitOn(PipelineDoms, PipelineHosts)

Next ==
    \/ MeasurePageLoad
    \/ MeasureResources
    \/ MeasureMemory
    \/ MeasureFPS
    \/ Frame
    \/ RunAudit
    \/ GenerateReport
    \/ CalculateScores
    \/ GenerateRecommendations
    \/ RunFullTestStart
    \/ RunFullTestAfterFPS
    \/ RunFullTestAfterAudit
    \/ DomMutation

Spec == Init /\ [][Next]_vars

\* The audit, the aggregator and the recommendations over many documents
InitAudit == InitOn(AuditDoms, {BaseHost})

NextAudit ==
    \/ RunAudit
    \/ CalculateScores
    \/ GenerateRecommendations
    \/ GenerateReport

SpecAudit == InitAudit /\ [][NextAudit]_vars

\* calculateCategoryScore over arbitrary category mappings
InitScore == InitOn({BaseDom}, {BaseHost})

NextScore == CalculateCategoryScore

SpecScore == InitScore /\ [][NextScore]_vars

\* measureResources over many lists of resource entries
InitResources == InitOn({BaseDom}, ResourceHosts)

NextResources == MeasureResources

SpecResources == InitResources /\ [][NextResources]_vars

\* The collectors and the pipeline on hosts that lack capabilities
InitCapabilities == InitOn({BaseDom}, CapabilityHosts)

NextCapabilities ==
    \/ MeasurePageLoad
    \/ MeasureMemory
    \/ RunFullTestStart
    \/ Frame
    \/ RunFullTestAfterFPS
    \/ RunFullTestAfterAudit

SpecCapabilities == InitCapabilities /\ [][NextCapabilities]_vars

\* The build script over every combination of failures
InitBuild ==
    /\ disk \in Disks
    /\ build = NotStarted
    /\ UtilitiesUnused
    /\ dom = BaseDom
    /\ host = BaseHost
    /\ metrics = EmptyObject
    /\ fps = <<>>
    /\ clock = host.firstStamp
    /\ pc = "idle"
    /\ log = <<>>
    /\ report = Undefined
    /\ ret = NoReturn
    /\ calls = 0
    /\ checked = EmptyObject

NextBuild ==
    \/ BuildStart
    \/ MinifierSettles
    \/ BuildAfterJS

SpecBuild == InitBuild /\ [][NextBuild]_vars

\* runFullTest on a host that keeps running frames for as long as a callback
\* is registered, and whose event loop resumes a coroutine whose awaited
\* promise has settled; under every frame cadence and every set of
\* capabilities.
InitLive == InitOn({BaseDom}, FrameHosts \cup CapabilityHosts)

NextLive ==
    \/ RunFullTestStart
    \/ Frame
    \/ RunFullTestAfterFPS
    \/ RunFullTestAfterAudit

SpecLive ==
    /\ InitLive
    /\ [][NextLive]_vars
    /\ WF_vars(Frame)
    /\ WF_vars(RunFullTestAfterFPS)
    /\ WF_vars(RunFullTestAfterAudit)

\* The checks run one by one in any order, around runAudit
InitChecks == InitOn(PipelineDoms, {BaseHost})

NextChecks ==
    \/ RunAudit
    \/ CallCheck

SpecChecks == InitChecks /\ [][NextChecks]_vars

\* The tester and the build script are not in use
OthersUnused ==
    /\ dom = BaseDom
    /\ host = BaseHost
    /\ metrics = EmptyObject
    /\ fps = <<>>
    /\ clock = host.firstStamp
    /\ pc = "idle"
    /\ log = <<>>
    /\ report = Undefined
    /\ ret = NoReturn
    /\ calls = 0
    /\ checked = EmptyObject
    /\ disk = BaseDisk
    /\ build = NotStarted

\* A debounced function, called at any times
InitDebounce ==
    /\ OthersUnused
    /\ now = 0
    /\ deb \in {NewDebounce(wait) : wait \in Waits}
    /\ thr = NewThrottle(0)
    /\ memo = NewMemoize

NextDebounce ==
    \/ DebouncedCall
    \/ DebounceTimerFires
    \/ Tick

SpecDebounce == InitDebounce /\ [][NextDebounce]_vars

\* A throttled function, called at any times
InitThrottle ==
    /\ OthersUnused
    /\ now = 0
    /\ deb = NewDebounce(0)
    /\ thr \in {NewThrottle(limit) : limit \in Limits}
    /\ memo = NewMemoize

NextThrottle ==
    \/ ThrottledCall
    \/ ThrottleTimerFires
    \/ Tick

SpecThrottle == InitThrottle /\ [][NextThrottle]_vars

\* A memoized function, called with any argument lists
InitMemoize ==
    /\ OthersUnused
    /\ UtilitiesUnused

NextMemoize == MemoizedCall

SpecMemoize == InitMemoize /\ [][NextMemoize]_vars

\* measureFPS under several frame cadences
InitFrames == InitOn({BaseDom}, FrameHosts)

NextFrames ==
    \/ MeasureFPS
    \/ Frame

SpecFrames == InitFrames /\ [][NextFrames]_vars

-----------------------------------------------------------------------------
(* Properties *)

Range(seq) == {seq[i] : i \in 1..Len(seq)}

IsPrefix(s, t) == Len(s) <= Len(t) /\ \A i \in 1..Len(s) : s[i] = t[i]

\* r is the integer nearest to total/n, a tie going up: r <= total/n + 1/2 < r + 1
IsRoundedMean(r, total, n) ==
    2 * n * r <= 2 * total + n /\ 2 * total + n < 2 * n * (r + 1)

RoundedMean(total, n) == CHOOSE r \in 0..100 : IsRoundedMean(r, total, n)

RECURSIVE SumOf(_, _)
\* The sum of f[i] over the i in S
SumOf(f, S) ==
    IF S = {} THEN 0
    ELSE LET i == CHOOSE x \in S : TRUE IN f[i] + SumOf(f, S \ {i})

\* The score a check of a category mapping counts with: 0 when it has none
CountedScore(item) == IF "score" \in DOMAIN item THEN item.score ELSE 0

\* C1: for every category mapping with at least one check,
\* calculateCategoryScore returns the mean of the checks' scores rounded to the
\* nearest integer, a tie going up, a check without a score counting as 0;
\* the scores 100, 80, 60 give 80.
C1_CategoryScoreIsRoundedMean ==
    ret.op = "calculateCategoryScore" =>
        LET category == ret.arg[1]
            total    == SumOf([k \in DOMAIN category |-> CountedScore(category[k])],
                              DOMAIN category)
        IN  /\ IsRoundedMean(ret.value, total, Cardinality(DOMAIN category))
            /\ category = <<[score |-> 100], [score |-> 80], [score |-> 60]>>
                   => ret.value = 80

\* A call on a mapping with an absent score whose mean, 37.5, is a tie
C1_Witness ==
    /\ ret.op = "calculateCategoryScore"
    /\ ret.arg[1] = <<[score |-> 75], [warning |-> "none"]>>
    /\ ret.value = 38

PerformanceTotal(a) ==
    a.performance.imageOptimization.score + a.performance.cssSize.score
    + a.performance.jsSize.score + a.performance.fontLoading.score

BestPracticesTotal(a) ==
    a.bestPractices.https.score + a.bestPractices.consoleErrors.score
    + a.bestPractices.deprecatedAPI.score

AccessibilityTotal(a) ==
    a.accessibility.altTags.score + a.accessibility.ariaLabels.score
    + a.accessibility.colorContrast.score

SeoTotal(a) ==
    a.seo.metaTags.score + a.seo.headingStructure.score + a.seo.semanticHTML.score

\* The rounded mean of the four rounded category means
TwoStage(a) ==
    RoundedMean(RoundedMean(PerformanceTotal(a), 4)
                + RoundedMean(AccessibilityTotal(a), 3)
                + RoundedMean(BestPracticesTotal(a), 3)
                + RoundedMean(SeoTotal(a), 3), 4)

\* The check results of an audit, as <<category, check>> pairs
Leaves(a) == UNION {{<<c, k>> : k \in DOMAIN a[c]} : c \in DOMAIN a}

\* The rounded mean of all the check scores of the audit
OneStage(a) ==
    RoundedMean(PerformanceTotal(a) + AccessibilityTotal(a) + BestPracticesTotal(a)
                + SeoTotal(a), Cardinality(Leaves(a)))

\* C2: when an audit exists, the overall score calculateScores returns is the
\* rounded mean of the four rounded category scores, also for the audits on
\* which this differs from the rounded mean of all the check scores.
C2_OverallIsTwoStage ==
    (ret.op = "calculateScores" /\ Has(ret.arg[1], "audit")) =>
        ret.value.overall = TwoStage(ret.arg[1].audit)

\* calculateScores returned for an audit on which the two formulas differ
C2_Witness ==
    /\ ret.op = "calculateScores"
    /\ Has(ret.arg[1], "audit")
    /\ TwoStage(ret.arg[1].audit) # OneStage(ret.arg[1].audit)
    /\ ret.value.overall = TwoStage(ret.arg[1].audit)

\* C3: calculateScores on a store without an audit entry, whatever else the
\* collectors have written, returns exactly performance 85, accessibility 90,
\* bestPractices 88, seo 92, overall 89.
C3_PlaceholderScores ==
    (ret.op = "calculateScores" /\ ~Has(ret.arg[1], "audit")) =>
        ret.value = [performance |-> 85, accessibility |-> 90,
                     bestPractices |-> 88, seo |-> 92, overall |-> 89]

\* calculateScores returned the placeholder after measurePageLoad and a
\* completed measureFPS, with no audit
C3_Witness ==
    /\ ret.op = "calculateScores"
    /\ ~Has(ret.arg[1], "audit")
    /\ Has(ret.arg[1], "pageLoad")
    /\ Has(ret.arg[1], "fps")
    /\ ret.value.overall = 89

AllScoresInRange(a) == \A p \in Leaves(a) : a[p[1]][p[2]].score \in 0..100

\* C4 as stated: runAudit produces twelve check results, each with an integer
\* score in 0..100.
C4_TwelveScoresInRange ==
    Has(metrics, "audit") =>
        /\ Cardinality(Leaves(metrics.audit)) = 12
        /\ AllScoresInRange(metrics.audit)

\* C4, amended: for every document, runAudit produces thirteen check results
\* (four performance, three bestPractices, three accessibility, three seo), and
\* the score of each is an integer in 0..100.
C4_ThirteenScoresInRange ==
    Has(metrics, "audit") =>
        /\ Cardinality(Leaves(metrics.audit)) = 13
        /\ AllScoresInRange(metrics.audit)

\* An audit of a document with six oversized images: 100 - 6 * 20 is floored at 0
C4_Witness ==
    /\ Has(metrics, "audit")
    /\ Len(metrics.audit.performance.imageOptimization.issues) = 6
    /\ metrics.audit.performance.imageOptimization.score = 0

\* C5: measureFPS(1000) against frames that come 60 to the 1000 ms, evenly
\* spaced, resolves with 60.
C5_SixtyFramesGiveSixty ==
    \A i \in 1..Len(fps) :
        (/\ host.frameGaps = {Period60}
         /\ fps[i].duration = 1000
         /\ fps[i].resolved > 0) => fps[i].value = Some(60)

\* C6: whatever the frames, the promise of a measureFPS call resolves at most
\* once, only in a callback whose timestamp is at least the duration after the
\* first callback's; once it has resolved no callback of the call is registered
\* and the call has written metrics.fps exactly once (and not before).
C6_ResolvesOnceAfterWindow ==
    \A i \in 1..Len(fps) :
        /\ fps[i].resolved <= 1
        /\ fps[i].writes = fps[i].resolved
        /\ fps[i].resolved = 1 =>
               /\ ~fps[i].scheduled
               /\ fps[i].last[1] - fps[i].first[1] >= fps[i].duration * TicksPerMs
               /\ fps[i].value = Some(MathRound(fps[i].frames * 1000, fps[i].duration))
               /\ Has(metrics, "fps")

\* A call has resolved and frames of a later call have run since
C6_Witness ==
    /\ Len(fps) = 2
    /\ fps[1].resolved = 1
    /\ fps[1].frames > 2
    /\ fps[2].frames > 0
    /\ fps[2].last[1] > fps[1].last[1]

FixedOrder ==
    <<"measurePageLoad", "measureResources", "measureMemory", "measureFPS",
      "measureFPS resolved", "runAudit", "generateReport", "console.log">>

\* C7: runFullTest performs measurePageLoad, measureResources, measureMemory,
\* measureFPS, runAudit, generateReport and the console output in this order;
\* runAudit starts only once the FPS promise has resolved and generateReport
\* runs only once metrics.audit is written.
C7_FixedOrder ==
    /\ IsPrefix(log, FixedOrder)
    /\ "runAudit" \in Range(log) => fps[CurrentRun].resolved = 1
    /\ "generateReport" \in Range(log) => Has(metrics, "audit")
    /\ pc = "done" => log = FixedOrder

\* A runFullTest that ran to its end
C7_Witness ==
    /\ pc = "done"
    /\ log = FixedOrder
    /\ ret.op = "runFullTest"

\* What a holder of the report r reads from it when the store is m
ReportView(r, m) ==
    [url |-> r.url, metrics |-> m, scores |-> r.scores,
     recommendations |-> r.recommendations]

\* C8: once generateReport has returned a report, no later operation on the
\* tester changes the report's metrics, scores or recommendations.
C8_ReportImmutable ==
    [][report # Undefined =>
           ReportView(report'[1], metrics') = ReportView(report[1], metrics)]_vars

\* The place of an advisory string in the fixed order
RecRank(rec) ==
    CASE rec = "Optimize images by resizing to appropriate dimensions" -> 1
      [] rec = "Minify and compress CSS files" -> 2
      [] rec = "Add alt text to all images" -> 3
      [] rec = "Add missing meta tags (description, viewport)" -> 4

\* The advisory strings whose condition holds on audit a
DueRecs(a) ==
    (IF a.performance.imageOptimization.score < 80
     THEN {"Optimize images by resizing to appropriate dimensions"} ELSE {})
    \cup (IF a.performance.cssSize.score < 80
          THEN {"Minify and compress CSS files"} ELSE {})
    \cup (IF a.accessibility.altTags.score < 100
          THEN {"Add alt text to all images"} ELSE {})
    \cup (IF a.seo.metaTags.score < 100
          THEN {"Add missing meta tags (description, viewport)"} ELSE {})

\* C9: generateRecommendations returns the empty sequence when no audit has
\* run; otherwise exactly the advisory strings whose condition holds (image
\* score < 80, CSS score < 80, alt score < 100, meta score < 100), each once,
\* in that order.
C9_Recommendations ==
    ret.op = "generateRecommendations" =>
        IF Has(ret.arg[1], "audit")
        THEN /\ Range(ret.value) = DueRecs(ret.arg[1].audit)
             /\ \A i, j \in 1..Len(ret.value) :
                    i < j => RecRank(ret.value[i]) < RecRank(ret.value[j])
        ELSE ret.value = <<>>

\* generateRecommendations returned three of the four strings: the image
\* score is exactly 80
C9_Witness ==
    /\ ret.op = "generateRecommendations"
    /\ Has(ret.arg[1], "audit")
    /\ ret.arg[1].audit.performance.imageOptimization.score = 80
    /\ Len(ret.value) = 3

\* The positions of the entries of type t
EntriesOfType(t) == {i \in 1..Len(host.entries) : host.entries[i].initiatorType = t}

EntryTypes == {host.entries[i].initiatorType : i \in 1..Len(host.entries)}

EntrySize(i) ==
    IF host.entries[i].transferSize = <<>> THEN 0 ELSE host.entries[i].transferSize[1]

\* C10: measureResources produces one bucket per distinct resource type; its
\* count is the number of entries of the type, totalSize the sum of their
\* sizes, averageTime the mean of their durations, items those entries in input
\* order; the counts sum to the number of entries; two script entries with
\* durations 100/300 and sizes 10/20 give count 2, totalSize 30, averageTime 200.
C10_ResourceSummary ==
    Has(metrics, "resourceSummary") =>
        LET summary == metrics.resourceSummary
        IN  /\ DOMAIN summary = EntryTypes
            /\ \A t \in EntryTypes :
                   LET bucket == summary[t]
                       mine   == EntriesOfType(t)
                   IN  /\ bucket.count = Cardinality(mine)
                       /\ bucket.totalSize = SumOf([i \in mine |-> EntrySize(i)], mine)
                       /\ bucket.averageTime.den > 0
                       /\ bucket.averageTime.num * bucket.count =
                              bucket.averageTime.den
                              * SumOf([i \in mine |-> host.entries[i].duration], mine)
                       /\ Len(bucket.items) = Cardinality(mine)
                       /\ \A j \in 1..Len(bucket.items) :
                              /\ bucket.items[j].name \in mine
                              /\ bucket.items[j] = metrics.resources[bucket.items[j].name]
                              /\ \A k \in 1..(j - 1) :
                                     bucket.items[k].name < bucket.items[j].name
            /\ SumOf([t \in EntryTypes |-> summary[t].count], EntryTypes)
                   = Len(host.entries)
            /\ host.entries = TwoScripts =>
                   /\ summary["script"].count = 2
                   /\ summary["script"].totalSize = 30
                   /\ summary["script"].averageTime = [num |-> 200, den |-> 1]

\* A summary with two buckets, one of them holding two entries
C10_Witness ==
    /\ Has(metrics, "resourceSummary")
    /\ DOMAIN metrics.resourceSummary = {"script", "img"}
    /\ metrics.resourceSummary["script"].count = 2
    /\ metrics.resourceSummary["script"].averageTime = [num |-> 200, den |-> 1]

\* The level of heading i of the document
LevelAt(i) ==
    CHOOSE n \in 1..6 : dom.headings[i] = <<"H1", "H2", "H3", "H4", "H5", "H6">>[n]

\* The headings whose level exceeds the level of the heading before them by
\* more than one
JumpsBetweenHeadings ==
    {i \in 2..Len(dom.headings) : LevelAt(i) > LevelAt(i - 1) + 1}

\* The same, with the first heading measured against level 0: a first heading
\* other than an h1 is a jump
JumpsFromTop ==
    JumpsBetweenHeadings \cup {i \in {1} : Len(dom.headings) > 0 /\ LevelAt(1) > 1}

\* C11 as stated: checkHeadingStructure reports as errors the number of
\* headings that exceed the level of the immediately preceding heading by more
\* than one, and scores 100 minus 20 for each.
C11_JumpsBetweenConsecutive ==
    Has(metrics, "audit") =>
        LET result == metrics.audit.seo.headingStructure
        IN  /\ result.errors = Cardinality(JumpsBetweenHeadings)
            /\ result.score = 100 - 20 * result.errors

\* C11, amended: checkHeadingStructure reports as errors the number of headings
\* that exceed by more than one the level of the heading before them, the first
\* heading being measured against level 0 (a first heading other than an h1 is
\* an error), and scores 100 minus 20 for each, floored at 0; h1,h2,h4 gives one
\* error and 80, h1,h2,h3 gives none and 100.
C11_JumpsFromLevelZero ==
    Has(metrics, "audit") =>
        LET result == metrics.audit.seo.headingStructure
        IN  /\ result.errors = Cardinality(JumpsFromTop)
            /\ result.score = IF 20 * result.errors > 100 THEN 0
                              ELSE 100 - 20 * result.errors
            /\ dom.headings = <<"H1", "H2", "H4">> =>
                   result.errors = 1 /\ result.score = 80
            /\ dom.headings = <<"H1", "H2", "H3">> =>
                   result.errors = 0 /\ result.score = 100

\* An audit of a document whose only headings are an h2 and an h3: one error
C11_Witness ==
    /\ Has(metrics, "audit")
    /\ dom.headings = <<"H2", "H3">>
    /\ metrics.audit.seo.headingStructure = [score |-> 80, errors |-> 1]

\* The images whose intrinsic width is more than twice their rendered width
Oversized ==
    {i \in 1..Len(dom.images) :
        dom.images[i].naturalWidth - dom.images[i].offsetWidth > dom.images[i].offsetWidth}

\* C12: checkImageOptimization flags an image exactly when its intrinsic width
\* is strictly more than twice its rendered width (800 against 300 is flagged,
\* 500 against 300 and 600 against 300 are not), lists one issue per flagged
\* image, and scores 100 minus 20 per flagged image, floored at 0.
C12_FlagsOversizedImages ==
    Has(metrics, "audit") =>
        LET result == metrics.audit.performance.imageOptimization
            points == 100 - 20 * Cardinality(Oversized)
        IN  /\ Len(result.issues) = Cardinality(Oversized)
            /\ Range(result.issues) = {dom.images[i].src : i \in Oversized}
            /\ result.score = IF points < 0 THEN 0 ELSE points
            /\ \A i \in 1..Len(dom.images) :
                   /\ (dom.images[i].naturalWidth = 800 /\ dom.images[i].offsetWidth = 300)
                          => dom.images[i].src \in Range(result.issues)
                   /\ (dom.images[i].naturalWidth \in {500, 600} /\ dom.images[i].offsetWidth = 300)
                          => dom.images[i].src \notin Range(result.issues)

\* An audit of a document with an image of exactly twice its rendered width,
\* not flagged, before one of 800 against 300, flagged
C12_Witness ==
    /\ Has(metrics, "audit")
    /\ Len(dom.images) = 2
    /\ dom.images[1].naturalWidth = 600
    /\ dom.images[2].naturalWidth = 800
    /\ metrics.audit.performance.imageOptimization = [score |-> 80, issues |-> <<2>>]

\* The images without alternative text
WithoutAlt == {i \in 1..Len(dom.images) : dom.images[i].alt = ""}

\* C13: checkAltTags scores 100 on a document without images; otherwise its
\* score is the rounded percentage of the images that have non-empty alt text,
\* and missing is the number of images without it; four images of which one
\* lacks alt text give 75.
C13_AltTextPercentage ==
    Has(metrics, "audit") =>
        LET result == metrics.audit.accessibility.altTags
            total  == Len(dom.images)
        IN  /\ result.missing = Cardinality(WithoutAlt)
            /\ total = 0 => result.score = 100
            /\ total > 0 =>
                   IsRoundedMean(result.score, 100 * (total - Cardinality(WithoutAlt)), total)
            /\ (total = 4 /\ Cardinality(WithoutAlt) = 1) => result.score = 75

\* An audit of a document with four images, one of them without alt text
C13_Witness ==
    /\ Has(metrics, "audit")
    /\ Len(dom.images) = 4
    /\ metrics.audit.accessibility.altTags = [score |-> 75, missing |-> 1]

\* The host offers no navigation timing: window has no performance property, or
\* performance has no timing record
TimingUnavailable(h) == ~h.hasPerformance \/ h.timing = Undefined

\* C14: on a host without navigation timing measurePageLoad, and on a host
\* without performance.memory measureMemory, returns nothing, does not throw,
\* and leaves the store without a pageLoad (memory) entry.
C14_SkipsWithoutRaising ==
    /\ (ret.op = "measurePageLoad" /\ TimingUnavailable(host)) =>
           /\ ret.error = Undefined
           /\ ret.value = Undefined
           /\ ~Has(metrics, "pageLoad")
    /\ (ret.op = "measureMemory" /\ host.memory = Undefined) =>
           /\ ret.error = Undefined
           /\ ret.value = Undefined
           /\ ~Has(metrics, "memory")

\* The artifacts whose minification met no error, in build order
Succeeded == SelectSeq(Artifacts, LAMBDA a : disk.fate[a] = "ok")

\* The file names of a list of stats entries
FilesOf(stats) == [i \in 1..Len(stats) |-> stats[i].file]

\* build() has settled: it returned or its promise rejected
BuildSettled == build.pc \in {"done", "rejected"}

\* C15: a minifier or file I/O error in minifying any of the three artifacts
\* does not abort build(): the error is caught and logged, the artifact adds
\* no stats entry, every other artifact is still minified and written, and
\* the HTML rewrite and the report run with the stats of exactly the
\* artifacts that succeeded; build() rejects only when the HTML or report
\* step itself fails.
C15_PartialBuild ==
    BuildSettled =>
        /\ build.attempted = Artifacts
        /\ \A a \in ArtifactNames :
               /\ disk.fate[a] = "ok" <=> OutputFile(a) \in disk.written
               /\ disk.fate[a] # "ok" <=> a \in Range(build.errors)
        /\ FilesOf(build.stats) = Succeeded
        /\ build.pc = "rejected" => (~disk.htmlOk \/ ~disk.reportOk)
        /\ disk.htmlOk => "dist/index.html" \in disk.written
        /\ (disk.htmlOk /\ disk.reportOk) =>
               /\ build.pc = "done"
               /\ disk.report # Undefined
               /\ FilesOf(disk.report[1]) = Succeeded
               /\ \A i \in 1..Len(disk.report[1]) :
                      disk.report[1][i] = StatsOf(Succeeded[i])

\* A build that completed although the stylesheet was invalid and the main
\* script could not be written: the report has the optimization script only
C15_Witness ==
    /\ build.pc = "done"
    /\ disk.fate["CSS"] = "invalid"
    /\ disk.fate["Main JS"] = "unwritable"
    /\ "dist/index.html" \in disk.written
    /\ disk.report # Undefined
    /\ FilesOf(disk.report[1]) = <<"Optimization JS">>

\* C16: the window of a measureFPS call starts at the timestamp of its first
\* callback, whatever that timestamp is, 0 included: the promise has resolved
\* exactly when a callback came at least the duration after the first one, and
\* the resolved value counts every callback from the first one on.
C16_WindowStartsAtFirstCallback ==
    \A i \in 1..Len(fps) :
        fps[i].first # Undefined =>
            /\ fps[i].resolved = 1 <=>
                   fps[i].last[1] - fps[i].first[1] >= fps[i].duration * TicksPerMs
            /\ fps[i].resolved = 1 =>
                   fps[i].value = Some(MathRound(fps[i].frames * 1000, fps[i].duration))

\* While no callback of a measureFPS call has run, its promise is pending; a
\* runFullTest waiting for it has not reached runAudit; and while no callback
\* has run at all there is no metrics.fps, no metrics.audit and no report.
SuspendedWithoutFrames ==
    /\ \A i \in 1..Len(fps) :
           fps[i].frames = 0 =>
               /\ fps[i].resolved = 0
               /\ fps[i].scheduled
               /\ (fps[i].owner = "runFullTest" /\ i = CurrentRun) =>
                      (pc = "awaitFPS" /\ "runAudit" \notin Range(log))
    /\ (\A i \in 1..Len(fps) : fps[i].frames = 0) =>
           /\ ~Has(metrics, "fps")
           /\ ~Has(metrics, "audit")
           /\ report = Undefined
           /\ ~(ret.op = "runFullTest" /\ ret.error = Undefined)

\* runFullTest has returned a report
ReportReturned ==
    pc = "done" /\ ret.op = "runFullTest" /\ ret.error = Undefined /\ report # Undefined

\* C17: as long as the host has run no frame callback, measureFPS has not
\* resolved, runFullTest has not reached runAudit or generateReport, and
\* metrics.fps, metrics.audit and the report do not exist; on a host that
\* keeps running frames with increasing timestamps, a runFullTest that has
\* come to wait for measureFPS eventually returns a report.
C17_SuspendsOrCompletes ==
    /\ []SuspendedWithoutFrames
    /\ (pc = "awaitFPS") ~> ReportReturned

\* A runFullTest returned its report after sixty-one frames
C17_Witness ==
    /\ ReportReturned
    /\ fps[CurrentRun].frames = 61
    /\ Has(metrics, "fps")
    /\ Has(metrics, "audit")

\* C18: no step of the tester removes a key from the metrics store: across
\* measurePageLoad, measureResources, measureMemory, measureFPS, runAudit,
\* generateReport and runFullTest the set of keys present only grows.
C18_KeysNeverShrink ==
    [][DOMAIN metrics \subseteq DOMAIN metrics']_vars

\* A store that holds every key the tester writes, after a runFullTest and
\* further calls on it
C18_Witness ==
    /\ DOMAIN metrics =
           {"pageLoad", "resources", "resourceSummary", "memory", "fps", "audit"}
    /\ pc = "done"
    /\ ret.op \in {"measurePageLoad", "measureResources", "measureMemory", "runAudit"}

\* The link elements of the document that are stylesheets
StylesheetLinks == {i \in 1..Len(dom.links) : dom.links[i].rel = "stylesheet"}

\* The link elements of the document that point to Google Fonts
FontLinks ==
    {i \in 1..Len(dom.links) :
        dom.links[i].href \in {"https://fonts.googleapis.com",
                               "https://fonts.googleapis.com/css2"}}

\* C19: a check whose collection is empty scores 100, a number: the image
\* size and alt text checks without images, the CSS check without
\* stylesheets, the JS check without scripts, the font check without font
\* links, the aria-label check without interactive elements, the heading
\* check without headings.
C19_EmptyCollectionsScore100 ==
    Has(metrics, "audit") =>
        LET a == metrics.audit
        IN  /\ Len(dom.images) = 0 =>
                   /\ a.performance.imageOptimization.score = 100
                   /\ a.accessibility.altTags.score = 100
            /\ StylesheetLinks = {} => a.performance.cssSize.score = 100
            /\ dom.scripts = 0 => a.performance.jsSize.score = 100
            /\ FontLinks = {} => a.performance.fontLoading.score = 100
            /\ Len(dom.interactive) = 0 => a.accessibility.ariaLabels.score = 100
            /\ Len(dom.headings) = 0 => a.seo.headingStructure.score = 100
            /\ \A p \in Leaves(a) : a[p[1]][p[2]].score \in Int

\* An audit of a document without interactive elements
C19_Witness ==
    /\ Has(metrics, "audit")
    /\ Len(dom.interactive) = 0
    /\ metrics.audit.accessibility.ariaLabels = [score |-> 100, unlabeled |-> 0]

\* Every check result gathered one by one is the result runAudit stored for
\* that check, whichever came first and in whatever order the checks ran.
GatheredAgree ==
    Has(metrics, "audit") =>
        /\ \A p \in Leaves(checked) :
               /\ p \in Leaves(metrics.audit)
               /\ checked[p[1]][p[2]] = metrics.audit[p[1]][p[2]]
        /\ Leaves(checked) = Leaves(metrics.audit) => checked = metrics.audit

\* A step that runs a check by itself changes neither the document nor the
\* store, and files its result under a key no other check has written; a
\* runAudit step does not change the document, changes no key of the store but
\* audit, and on an unchanged document stores an audit equal to the one before.
ChecksArePure ==
    /\ checked' # checked =>
           /\ dom' = dom
           /\ metrics' = metrics
           /\ Cardinality(Leaves(checked')) = Cardinality(Leaves(checked)) + 1
           /\ \A p \in Leaves(checked) : checked'[p[1]][p[2]] = checked[p[1]][p[2]]
    /\ metrics' # metrics =>
           /\ dom' = dom
           /\ \A k \in DOMAIN metrics \ {"audit"} : Has(metrics', k) /\ metrics'[k] = metrics[k]
    /\ (Has(metrics, "audit") /\ Has(metrics', "audit") /\ dom' = dom) =>
           metrics'.audit = metrics.audit

Categories == {"performance", "accessibility", "bestPractices", "seo"}

\* C21: a report returned by runFullTest has scores computed from the audit
\* the run wrote, not the fallback: the store held an audit when the report
\* was assembled, every category score is the rounded mean of that audit's
\* check scores for the category, all five scores are integers in 0..100, and
\* the recommendations are the ones due for that same audit.
C21_ReportScoresFromAudit ==
    (ret.op = "runFullTest" /\ ret.error = Undefined) =>
        LET store  == ret.arg[1]
            scores == ret.value.scores
        IN  /\ Has(store, "audit")
            /\ \A c \in Categories :
                   /\ scores[c] \in 0..100
                   /\ IsRoundedMean(scores[c],
                                    SumOf([k \in DOMAIN store.audit[c] |->
                                              store.audit[c][k].score],
                                          DOMAIN store.audit[c]),
                                    Cardinality(DOMAIN store.audit[c]))
            /\ scores.overall \in 0..100
            /\ scores.overall = TwoStage(store.audit)
            /\ Range(ret.value.recommendations) = DueRecs(store.audit)

\* runFullTest returned a report on the poor document: its scores are not the
\* fallback ones and all four recommendations are made
C21_Witness ==
    /\ ret.op = "runFullTest"
    /\ ret.error = Undefined
    /\ dom = PoorDom
    /\ ret.value.scores.performance < 85
    /\ Len(ret.value.recommendations) = 4

\* Call i of the debounced function ends a burst: no call has followed it
\* less than wait later
EndsBurst(i) ==
    \/ i = Len(deb.calls)
    \/ deb.calls[i + 1].at - deb.calls[i].at >= deb.wait

\* The calls that end a burst and lie at least wait back, in order
BurstEnds ==
    SelectSeq([i \in 1..Len(deb.calls) |-> i],
              LAMBDA i : EndsBurst(i) /\ deb.calls[i].at + deb.wait <= now)

\* func has been invoked once for every burst whose last call lies wait back,
\* at that time and with the arguments of that call, and for nothing else
\* (the invocation for a burst that ends right now may be about to run)
OncePerBurst ==
    LET ends == BurstEnds
        n    == Len(ends)
        k    == Len(deb.invoked)
    IN  /\ k \in {n - 1, n}
        /\ k = n - 1 =>
               /\ deb.calls[ends[n]].at + deb.wait = now
               /\ deb.timers # {}
        /\ \A j \in 1..k :
               deb.invoked[j] = [at   |-> deb.calls[ends[j]].at + deb.wait,
                                 args |-> deb.calls[ends[j]].args]

ThrottledApart ==
    /\ Len(thr.calls) > 0 =>
           /\ Len(thr.invoked) > 0
           /\ thr.invoked[1].at = thr.calls[1].at
           /\ thr.invoked[1].args = thr.calls[1].args
    /\ \A j \in 1..Len(thr.invoked) :
           \E i \in 1..Len(thr.calls) :
               /\ thr.calls[i].at = thr.invoked[j].at
               /\ thr.calls[i].args = thr.invoked[j].args
    /\ \A j, k \in 1..Len(thr.invoked) :
           j < k => thr.invoked[k].at - thr.invoked[j].at >= thr.limit

\* The step part of C23: a call made while the limit timer is pending does
\* not invoke func; a call made while no timer is pending invokes it.
ThrottledStep ==
    Len(thr.calls') > Len(thr.calls) =>
        IF thr.timers # {} THEN thr.invoked' = thr.invoked
        ELSE Len(thr.invoked') = Len(thr.invoked) + 1

\* C23: the first call of a throttled function invokes func at once; a call
\* made while the limit timer is pending is dropped; any two invocations of
\* func lie at least limit apart; once the timer has run the next call
\* invokes func again.
C23_Throttle ==
    /\ []ThrottledApart
    /\ [][ThrottledStep]_vars

\* A cache entry once stored is never changed or evicted
CacheKept ==
    \A key \in DOMAIN memo.cache :
        /\ Has(memo.cache', key)
        /\ memo.cache'[key] = memo.cache[key]

\* The invocations of fn are those the calls made, in order
InvocationsOfCalls ==
    LET made == SelectSeq(memo.calls, LAMBDA c : c.invoked)
    IN  /\ Len(made) = Len(memo.invocations)
        /\ \A n \in 1..Len(made) :
               /\ made[n].args = memo.invocations[n].args
               /\ made[n].key = JSONstringify(memo.invocations[n].args)
               /\ made[n].key = memo.invocations[n].key
               /\ made[n].value = memo.invocations[n].value

\* C24 as stated: fn is invoked at most once for each serialization of the
\* argument list; every later call with the same serialized arguments returns
\* the value stored by the first such call and does not invoke fn; a cache
\* entry once stored is never changed or evicted.
C24_OncePerSerialization ==
    /\ [](/\ InvocationsOfCalls
          /\ \A m, n \in 1..Len(memo.invocations) :
                 m < n => memo.invocations[m].key # memo.invocations[n].key
          /\ \A i, j \in 1..Len(memo.calls) :
                 (i < j /\ JSONstringify(memo.calls[i].args)
                             = JSONstringify(memo.calls[j].args)) =>
                     /\ ~memo.calls[j].invoked
                     /\ memo.calls[j].outcome = "returns"
                     /\ memo.calls[j].value = memo.calls[i].value)
    /\ [][CacheKept]_vars

\* Call i invoked fn and fn returned
Stored(i) == memo.calls[i].invoked /\ memo.calls[i].outcome = "returns"

\* C24, amended: for each serialization of the argument list fn returns at
\* most once; a call invokes fn exactly when no earlier call with the same
\* serialized arguments had fn return; an invocation that throws stores
\* nothing; every call after the one whose invocation returned gets the value
\* stored by it, without invoking fn; the cache holds exactly those values,
\* and an entry once stored is never changed or evicted.
C24_OncePerStoredSerialization ==
    /\ [](/\ InvocationsOfCalls
          /\ \A m, n \in 1..Len(memo.invocations) :
                 (m < n /\ memo.invocations[m].outcome = "returns") =>
                     memo.invocations[m].key # memo.invocations[n].key
          /\ \A j \in 1..Len(memo.calls) :
                 LET earlier == {i \in 1..(j - 1) :
                                    /\ Stored(i)
                                    /\ JSONstringify(memo.calls[i].args)
                                         = JSONstringify(memo.calls[j].args)}
                 IN  /\ memo.calls[j].invoked <=> earlier = {}
                     /\ \A i \in earlier :
                            /\ memo.calls[j].outcome = "returns"
                            /\ memo.calls[j].value = memo.calls[i].value
          /\ DOMAIN memo.cache =
                 {JSONstringify(memo.calls[i].args) :
                      i \in {k \in 1..Len(memo.calls) : Stored(k)}}
          /\ \A i \in 1..Len(memo.calls) :
                 Stored(i) =>
                     Some(memo.cache[JSONstringify(memo.calls[i].args)])
                       = memo.calls[i].value)
    /\ [][CacheKept]_vars

\* fn threw on [null], returned on the next call with [undefined], which has
\* the same serialization, and a later call with [null] got that value from
\* the cache; fn was invoked once more, for another serialization
C24_Witness ==
    /\ \E i, j, k \in 1..Len(memo.calls) :
           /\ i < j /\ j < k
           /\ memo.calls[i].args = <<"null">>
           /\ memo.calls[i].invoked /\ memo.calls[i].outcome = "throws"
           /\ memo.calls[j].args = <<"undefined">>
           /\ Stored(j)
           /\ memo.calls[k].args = <<"null">>
           /\ ~memo.calls[k].invoked
           /\ memo.calls[k].value = memo.calls[j].value
    /\ Len(memo.invocations) = 3
    /\ Cardinality(DOMAIN memo.cache) = 2

====
